---- MODULE Spec2Model ----
(***************************************************************************)
(* Folder Zipper (src/assets/js/script.js): the folder registry, the       *)
(* grouping of an uploaded batch into folder records, the bulk zip run      *)
(* with its cooperative cancellation flag, and the delayed removal          *)
(* callbacks.                                                               *)
(*                                                                          *)
(* JavaScript runs one task at a time: every action below is one task of    *)
(* the event loop (a command handler, a timer callback, or the resumption   *)
(* of an awaiting async function) run to its next await, with the           *)
(* microtasks that follow it.                                               *)
(*                                                                          *)
(* Strings are sequences of one-character strings, so that split, join,     *)
(* endsWith, indexOf and length are computed and not assumed.               *)
(***************************************************************************)
EXTENDS Integers, Sequences, FiniteSets, TLC

VARIABLES
    heap,               \* every folder object ever created, by id (objects outlive the registry)
    folders,            \* state.folders: the ids of the registered folders, in order
    shouldStopZipping,  \* state.shouldStopZipping
    runs,               \* the zipAllFolders calls suspended at an await
    timers,             \* the pending setTimeout(REMOVE_FOLDER) callbacks, in firing order
    dom,                \* ids whose folder element is in the document
    lastOp              \* history: the last command handled, with its outcome
                        \* (add: arg 1 when a run was iterating the registry array;
                        \* stop: whether runs were in flight, all at their first yield;
                        \* downloadAll: the entries of the bundle), or the input and
                        \* the result of a function applied on its own

vars == <<heap, folders, shouldStopZipping, runs, timers, dom, lastOp>>

----------------------------------------------------------------------------
(* Bounds of the model *)

MaxIds == 3        \* folder objects created in one behaviour
MaxRuns == 2       \* zipAllFolders calls in flight at once
MaxTimers == 2     \* removal callbacks pending at once
MaxSegments == 2   \* segments of a path given to the grouper as a function
MaxBatch == 2      \* files of a batch given to the grouper as a function
MaxFolders == 4    \* folder objects created under zip-all and stop alone
MaxCalls == 3      \* zipAllFolders calls in flight at once under zip-all and stop alone

----------------------------------------------------------------------------
(* Constants of the program *)

PENDING == "pending"
ZIPPING == "zipping"
COMPLETE == "complete"

SUPPORTED_FILE_EXTENSIONS ==
  {
    <<".","h","t","m","l">>, <<".","h","t","m">>, <<".","c","s","s">>, <<".","j","s">>,
    <<".","j","s","o","n">>, <<".","x","m","l">>, <<".","t","x","t">>, <<".","m","d">>,
    <<".","j","p","g">>, <<".","j","p","e","g">>, <<".","p","n","g">>, <<".","g","i","f">>,
    <<".","s","v","g">>, <<".","b","m","p">>, <<".","w","e","b","p">>, <<".","i","c","o">>,
    <<".","z","i","p">>, <<".","r","a","r">>, <<".","7","z">>, <<".","t","a","r">>,
    <<".","g","z">>, <<".","p","d","f">>, <<".","d","o","c">>, <<".","d","o","c","x">>,
    <<".","x","l","s">>, <<".","x","l","s","x">>, <<".","p","p","t">>, <<".","p","p","t","x">>,
    <<".","m","p","3">>, <<".","m","p","4">>, <<".","a","v","i">>, <<".","m","o","v">>,
    <<".","w","m","v">>, <<".","c","s","v">>, <<".","l","o","g">>, <<".","i","n","i">>,
    <<".","c","o","n","f">>, <<".","c","o","n","f","i","g">>
  }

----------------------------------------------------------------------------
(* String primitives of the language, on sequences of characters *)

UpperCase == <<"A","B","C","D","E","F","G","H","I","J","K","L","M",
               "N","O","P","Q","R","S","T","U","V","W","X","Y","Z">>
LowerCase == <<"a","b","c","d","e","f","g","h","i","j","k","l","m",
               "n","o","p","q","r","s","t","u","v","w","x","y","z">>
Digits == {"0","1","2","3","4","5","6","7","8","9"}

\* String.prototype.toLowerCase
toLowerCase(s) ==
    [k \in 1..Len(s) |->
        IF \E u \in 1..Len(UpperCase) : UpperCase[u] = s[k]
        THEN LowerCase[CHOOSE u \in 1..Len(UpperCase) : UpperCase[u] = s[k]]
        ELSE s[k]]

\* String.prototype.endsWith
endsWith(s, suffix) ==
    /\ Len(suffix) <= Len(s)
    /\ SubSeq(s, Len(s) - Len(suffix) + 1, Len(s)) = suffix

\* the class \w of a regular expression
WordChar(c) ==
    \/ \E u \in 1..Len(UpperCase) : UpperCase[u] = c
    \/ \E u \in 1..Len(LowerCase) : LowerCase[u] = c
    \/ c \in Digits
    \/ c = "_"

\* /\.\w{1,5}$/.test(s)
hasGenericExtension(s) ==
    \E n \in 1..5 :
        /\ Len(s) >= n + 1
        /\ s[Len(s) - n] = "."
        /\ \A k \in (Len(s) - n + 1)..Len(s) : WordChar(s[k])

\* String.prototype.split('/')
RECURSIVE split(_)
split(s) ==
    IF \A k \in 1..Len(s) : s[k] # "/"
    THEN <<s>>
    ELSE LET k == CHOOSE k \in 1..Len(s) : s[k] = "/" /\ \A j \in 1..(k - 1) : s[j] # "/"
         IN  <<SubSeq(s, 1, k - 1)>> \o split(SubSeq(s, k + 1, Len(s)))

\* Array.prototype.join('/')
RECURSIVE join(_)
join(parts) ==
    IF Len(parts) = 0 THEN <<>>
    ELSE IF Len(parts) = 1 THEN parts[1]
    ELSE parts[1] \o <<"/">> \o join(Tail(parts))

\* Array.prototype.slice(from), from counted from 0
slice(a, from) == SubSeq(a, from + 1, Len(a))

\* Array.prototype.indexOf, counted from 0; -1 when absent
indexOf(a, x) ==
    IF \E k \in 1..Len(a) : a[k] = x
    THEN (CHOOSE k \in 1..Len(a) : a[k] = x /\ \A j \in 1..(k - 1) : a[j] # x) - 1
    ELSE -1

\* a || b on strings: the empty string is falsy
OrElse(a, b) == IF a # <<>> THEN a ELSE b

\* mutant: the percentage is cut, not rounded
RoundPercent_m(num, den) == (100 * num) \div den

\* Math.round(num / den * 100) for num >= 0, den > 0
RoundPercent(num, den) == (200 * num + den) \div (2 * den)

----------------------------------------------------------------------------
(* Files of the platform's directory selection: File.webkitRelativePath and *)
(* File.name, the last segment of the path                                  *)

File(path) == [webkitRelativePath |-> path, name |-> split(path)[Len(split(path))]]

FileA1 == File(<<"R","/","A","/","f",".","t">>)
FileA2 == File(<<"R","/","A","/","g",".","t">>)
FileA3 == File(<<"R","/","A","/","e",".","t">>)
FileB1 == File(<<"R","/","B","/","h",".","t">>)
FileN1 == File(<<"R","/","n",".","t">>)
FileM1 == File(<<"R","/","m",".","t">>)

\* the selections a user makes: the folder A alone, of three files; a root
\* holding a stray file, the folder B and one file of A; a root holding two
\* stray files
Batches ==
    << <<FileA1, FileA2, FileA3>>, <<FileN1, FileB1, FileA1>>, <<FileN1, FileM1>> >>

----------------------------------------------------------------------------
(* Path classifier and folder grouper *)

isFile(name) ==
    LET lowerName == toLowerCase(name)
        hasExtension == \E ext \in SUPPORTED_FILE_EXTENSIONS : endsWith(lowerName, ext)
    IN  hasExtension \/ hasGenericExtension(lowerName)

\* mutant: no batch has a common root
extractCommonRoot_m(pathParts) == {}

\* null is {}, a root r is {r}
extractCommonRoot(pathParts) ==
    LET uniqueRoots == {pathParts[k][1] : k \in 1..Len(pathParts)}
    IN  IF Cardinality(uniqueRoots) = 1 THEN {pathParts[1][1]} ELSE {}

\* truthiness of string|null: null and the empty string are falsy
Truthy(v) == \E r \in v : r # <<>>

\* mutant: the common root is never stripped
extractFolderName_m(pathParts, commonRoot, allPathParts) == pathParts[1]

extractFolderName(pathParts, commonRoot, allPathParts) ==
    LET hasNestedFolders == \E k \in 1..Len(allPathParts) : Len(allPathParts[k]) > 1
        isNested == Len(pathParts) > 1
    IN  IF Truthy(commonRoot) /\ hasNestedFolders /\ isNested
        THEN pathParts[2]
        ELSE pathParts[1]

\* folderMap after the files from position k on are grouped: a Map keeps its
\* keys in insertion order, here a sequence of [name, files]
RECURSIVE groupFiles(_, _, _, _)
groupFiles(fileArray, k, commonRoot, folderMap) ==
    IF k > Len(fileArray) THEN folderMap
    ELSE LET file == fileArray[k]
             pathParts == split(file.webkitRelativePath)
             \* the callback's own pathParts shadows the batch's pathParts:
             \* the third argument is this file's segments
             folderName == extractFolderName(pathParts, commonRoot, pathParts)
             has == \E g \in 1..Len(folderMap) : folderMap[g].name = folderName
             withKey == IF has THEN folderMap
                        ELSE Append(folderMap, [name |-> folderName, files |-> <<>>])
             pushed == [g \in 1..Len(withKey) |->
                          IF withKey[g].name = folderName
                          THEN [withKey[g] EXCEPT !.files = Append(@, file)]
                          ELSE withKey[g]]
         IN  groupFiles(fileArray, k + 1, commonRoot, pushed)

groupBatch(fileArray) ==
    LET pathParts == [k \in 1..Len(fileArray) |-> split(fileArray[k].webkitRelativePath)]
        commonRoot == extractCommonRoot(pathParts)
    IN  groupFiles(fileArray, 1, commonRoot, <<>>)

----------------------------------------------------------------------------
(* Folder registry *)

NoBlob == {}       \* zipBlob: null

\* Date.now() + Math.random(): a number no earlier object has
generateFolderId(h) == Len(h) + 1

createFolderObject(h, name, files) ==
    [id |-> generateFolderId(h),
     name |-> name,
     files |-> files,
     status |-> PENDING,
     progress |-> 0,
     zipBlob |-> NoBlob,
     isFile |-> isFile(name)]

\* mutant: the duplicate check finds nothing
nameExists_m(h, fs, name) == FALSE

\* state.folders.some(folder => folder.name === name)
nameExists(h, fs, name) == \E k \in 1..Len(fs) : h[fs[k]].name = name

\* mutant: a duplicate name merges the new files into the existing record
addFolder_m(st, name, files) ==
    IF \E k \in 1..Len(st.folders) : st.heap[st.folders[k]].name = name
    THEN [st EXCEPT !.heap = [i \in 1..Len(st.heap) |->
                                IF st.heap[i].name = name
                                THEN [st.heap[i] EXCEPT !.files = @ \o files]
                                ELSE st.heap[i]]]
    ELSE LET folder == createFolderObject(st.heap, name, files)
         IN  [heap |-> Append(st.heap, folder),
              folders |-> Append(st.folders, folder.id),
              dom |-> st.dom \cup {folder.id}]

\* addFolder on st = [heap, folders, dom]: push the new object on the
\* registry array and render its element
addFolder(st, name, files) ==
    IF nameExists(st.heap, st.folders, name) THEN st
    ELSE LET folder == createFolderObject(st.heap, name, files)
         IN  [heap |-> Append(st.heap, folder),
              folders |-> Append(st.folders, folder.id),
              dom |-> st.dom \cup {folder.id}]

\* folderMap.forEach((files, name) => addFolder(name, files))
RECURSIVE addFolders(_, _, _)
addFolders(st, folderMap, g) ==
    IF g > Len(folderMap) THEN st
    ELSE addFolders(addFolder(st, folderMap[g].name, folderMap[g].files), folderMap, g + 1)

\* mutant helper: the array without the id
withoutFolder_m(fs, id) == SelectSeq(fs, LAMBDA i : i # id)

\* Array.prototype.filter keeps the order of the array, as SelectSeq does
\* state.folders.filter(folder => folder.isFile)
unwantedFilesOf(h, fs) == SelectSeq(fs, LAMBDA i : h[i].isFile)

\* mutant: only the first invalid record is taken out
withoutUnwanted_m(h, fs) ==
    IF unwantedFilesOf(h, fs) = <<>> THEN fs
    ELSE withoutFolder_m(fs, unwantedFilesOf(h, fs)[1])

\* state.folders.filter(f => !f.isFile)
withoutUnwanted(h, fs) == SelectSeq(fs, LAMBDA i : ~h[i].isFile)

\* state.folders.filter(f => f.id !== folder.id)
withoutFolder(h, fs, id) == SelectSeq(fs, LAMBDA i : h[i].id # id)

\* mutant: removeFolder without its status check
removeRefused_m(h, id) == FALSE

\* removeFolder's first early return
removeRefused(h, id) == h[id].status = ZIPPING

\* mutant: the validation never reports an unwanted file
validateAndHighlightFiles_m(h, fs) == FALSE

\* validateAndHighlightFiles: whether there are unwanted files
validateAndHighlightFiles(h, fs) == Len(unwantedFilesOf(h, fs)) # 0

\* A run iterates the array state.folders named when its loop began.  filter
\* and [] make state.folders a new array: the runs that shared the old one
\* keep it; push changes the array in place, and the runs that share it see
\* the new element.
Detach(rs, old) ==
    {IF r.shared THEN [r EXCEPT !.shared = FALSE, !.arr = old] ELSE r : r \in rs}

ArrayOf(r, fs) == IF r.shared THEN fs ELSE r.arr

----------------------------------------------------------------------------
(* Archive engine *)

\* mutant: the folder name is not looked for in the path
calculateRelativePath_m(file, folderName) ==
    LET pathParts == split(file.webkitRelativePath)
    IN  IF Len(pathParts) > 1
        THEN OrElse(join(slice(pathParts, 1)), file.name)
        ELSE file.name

calculateRelativePath(file, folderName) ==
    LET pathParts == split(file.webkitRelativePath)
        folderIndex == indexOf(pathParts, folderName)
    IN  IF folderIndex >= 0
        THEN OrElse(join(slice(pathParts, folderIndex + 1)), file.name)
        ELSE IF Len(pathParts) > 1
        THEN OrElse(join(slice(pathParts, 1)), file.name)
        ELSE file.name

\* JSZip.file(name, data): a zip holds one entry per name
zipFile(zip, relativePath, file) ==
    IF \E k \in 1..Len(zip) : zip[k].path = relativePath
    THEN [k \in 1..Len(zip) |->
            IF zip[k].path = relativePath THEN [path |-> relativePath, data |-> file]
            ELSE zip[k]]
    ELSE Append(zip, [path |-> relativePath, data |-> file])

resetFolderState(h, id) ==
    [h EXCEPT ![id].status = PENDING, ![id].progress = 0]

\* mutant: the blob and the progress are stored, the status is left
completeFolder_m(h, id, blob) ==
    [h EXCEPT ![id].zipBlob = {blob}, ![id].progress = 100]

\* the assignments after generateAsync has resolved with a blob
completeFolder(h, id, blob) ==
    [h EXCEPT ![id].zipBlob = {blob}, ![id].status = COMPLETE, ![id].progress = 100]

\* zipFolder from the head of its for loop with loop variable i, to its next
\* await or its return: at "returned" the folder was reset, at "delay" file i
\* is in the zip, at "generate" generateAsync is running
zipFolderFrom(h, id, i, zip, stop) ==
    LET totalFiles == Len(h[id].files) IN
    IF i < totalFiles
    THEN IF stop
         THEN [heap |-> resetFolderState(h, id), at |-> "returned", i |-> i, zip |-> zip]
         ELSE LET file == h[id].files[i + 1]
                  relativePath == calculateRelativePath(file, h[id].name)
              IN  [heap |-> [h EXCEPT ![id].progress = RoundPercent(i + 1, totalFiles)],
                   at |-> "delay", i |-> i, zip |-> zipFile(zip, relativePath, file)]
    ELSE IF stop
         THEN [heap |-> resetFolderState(h, id), at |-> "returned", i |-> i, zip |-> zip]
         ELSE [heap |-> h, at |-> "generate", i |-> i, zip |-> zip]

\* zipFolder from its call to its first await or its return
zipFolder(h, id, stop) ==
    IF stop
    THEN [heap |-> resetFolderState(h, id), at |-> "returned", i |-> 0, zip |-> <<>>]
    ELSE zipFolderFrom([h EXCEPT ![id].status = ZIPPING], id, 0, <<>>, stop)

\* mutant: the loop takes every valid record that is not Zipping
zipCandidate_c(h, id) == h[id].status # ZIPPING /\ ~h[id].isFile

\* mutant: the loop does not look at the status
zipCandidate_s(h, id) == ~h[id].isFile

\* mutant: the loop does not look at isFile
zipCandidate_m(h, id) == h[id].status = PENDING

\* whether the loop of zipAllFolders zips this folder
zipCandidate(h, id) == h[id].status = PENDING /\ ~h[id].isFile

\* mutant: the loop goes on to the next folder without reading the
\* cancellation flag
RECURSIVE zipLoop_m(_, _, _, _, _, _)
zipLoop_m(h, a, pos, stop, shared, own) ==
    IF pos >= Len(a)
    THEN [heap |-> h, run |-> {}]
    ELSE LET id == a[pos + 1] IN
         IF zipCandidate(h, id)
         THEN LET z == zipFolder(h, id, FALSE) IN
              IF z.at = "returned"
              THEN zipLoop_m(z.heap, a, pos + 1, stop, shared, own)
              ELSE [heap |-> z.heap,
                    run |-> {[shared |-> shared,
                              arr |-> IF shared THEN <<>> ELSE own,
                              pos |-> pos + 1,
                              cur |-> id,
                              i |-> z.i,
                              zip |-> z.zip,
                              pc |-> z.at]}]
         ELSE zipLoop_m(h, a, pos + 1, stop, shared, own)

\* the for...of loop of zipAllFolders over the array a, pos elements already
\* taken, until it awaits inside a zipFolder or ends: the heap it leaves and
\* the suspended run, if any
RECURSIVE zipLoop(_, _, _, _, _, _)
zipLoop(h, a, pos, stop, shared, own) ==
    IF pos >= Len(a) \/ stop
    THEN [heap |-> h, run |-> {}]
    ELSE LET id == a[pos + 1] IN
         IF zipCandidate(h, id)
         THEN LET z == zipFolder(h, id, stop) IN
              IF z.at = "returned"
              THEN zipLoop(z.heap, a, pos + 1, stop, shared, own)
              ELSE [heap |-> z.heap,
                    run |-> {[shared |-> shared,
                              arr |-> IF shared THEN <<>> ELSE own,
                              pos |-> pos + 1,
                              cur |-> id,
                              i |-> z.i,
                              zip |-> z.zip,
                              pc |-> z.at]}]
         ELSE zipLoop(h, a, pos + 1, stop, shared, own)

\* mutant: every registered record is put in the bundle, archive or not
RECURSIVE mainZipFrom_m(_, _, _, _)
mainZipFrom_m(h, fs, k, mainZip) ==
    IF k > Len(fs) THEN mainZip
    ELSE mainZipFrom_m(h, fs, k + 1,
             zipFile(mainZip, h[fs[k]].name \o <<".","z","i","p">>, h[fs[k]].zipBlob))

\* the forEach of downloadAllZips from the k-th record of the array on:
\* mainZip.file(`${folder.name}.zip`, folder.zipBlob) for the folders that
\* have a zipBlob
RECURSIVE mainZipFrom(_, _, _, _)
mainZipFrom(h, fs, k, mainZip) ==
    IF k > Len(fs) THEN mainZip
    ELSE LET folder == h[fs[k]] IN
         mainZipFrom(h, fs, k + 1,
             IF folder.zipBlob # NoBlob
             THEN zipFile(mainZip, folder.name \o <<".","z","i","p">>,
                          CHOOSE blob \in folder.zipBlob : TRUE)
             ELSE mainZip)

\* a run resumed in its zipFolder, which then returned or awaits again
resumeRun(h, r, a, z, stop) ==
    IF z.at = "returned"
    THEN zipLoop(z.heap, a, r.pos, stop, r.shared, r.arr)
    ELSE [heap |-> z.heap, run |-> {[r EXCEPT !.i = z.i, !.zip = z.zip, !.pc = z.at]}]

----------------------------------------------------------------------------
(* Initial state: state = { folders: [], shouldStopZipping: false } *)

Init ==
    /\ heap = <<>>
    /\ folders = <<>>
    /\ shouldStopZipping = FALSE
    /\ runs = {}
    /\ timers = <<>>
    /\ dom = {}
    /\ lastOp = [op |-> "init", arg |-> 0, res |-> "ok"]

Ids == 1..Len(heap)

----------------------------------------------------------------------------
(* Commands *)

\* add-batch: the change handler of the folder input, on the files selected
processUploadedFiles(files) ==
    LET folderMap == groupBatch(files)
        initialRowCount == Len(folders)
        st == addFolders([heap |-> heap, folders |-> folders, dom |-> dom], folderMap, 1)
        rowsAdded == Len(st.folders) - initialRowCount
    IN  /\ heap' = st.heap
        /\ folders' = st.folders
        /\ dom' = st.dom
        /\ lastOp' = [op |-> "add",
                      arg |-> IF \E r \in runs : r.shared THEN 1 ELSE 0,
                      res |-> IF rowsAdded < Len(folderMap) THEN "dropped" ELSE "added"]
        /\ UNCHANGED <<shouldStopZipping, runs, timers>>

\* remove(id): the click handler of a folder's remove button
removeFolder(id) ==
    IF removeRefused(heap, id)
    THEN /\ lastOp' = [op |-> "remove", arg |-> id, res |-> "refused"]
         /\ UNCHANGED <<heap, folders, shouldStopZipping, runs, timers, dom>>
    ELSE IF id \notin dom
    THEN /\ lastOp' = [op |-> "remove", arg |-> id, res |-> "noelement"]
         /\ UNCHANGED <<heap, folders, shouldStopZipping, runs, timers, dom>>
    ELSE /\ folders' = withoutFolder(heap, folders, id)
         /\ runs' = Detach(runs, folders)
         /\ timers' = Append(timers, [kind |-> "removeFolder", id |-> id, last |-> FALSE])
         /\ lastOp' = [op |-> "remove", arg |-> id, res |-> "removed"]
         /\ UNCHANGED <<heap, shouldStopZipping, dom>>

\* remove-all-invalid: the click handler of the cleanup button
removeUnwantedFiles ==
    LET unwantedFiles == unwantedFilesOf(heap, folders)
        scheduled == [k \in 1..Len(unwantedFiles) |->
                        [kind |-> "removeUnwanted", id |-> unwantedFiles[k],
                         last |-> (k = Len(unwantedFiles))]]
        withElement == SelectSeq(scheduled, LAMBDA t : t.id \in dom)
    IN  IF Len(unwantedFiles) = 0
        THEN /\ lastOp' = [op |-> "removeUnwanted", arg |-> 0, res |-> "none"]
             /\ UNCHANGED <<heap, folders, shouldStopZipping, runs, timers, dom>>
        ELSE /\ timers' = timers \o withElement
             /\ folders' = withoutUnwanted(heap, folders)
             /\ runs' = Detach(runs, folders)
             /\ lastOp' = [op |-> "removeUnwanted", arg |-> 0, res |-> "removed"]
             /\ UNCHANGED <<heap, shouldStopZipping, dom>>

\* zip-all: the click handler of the zip-all button, to its first await
zipAllFolders ==
    IF validateAndHighlightFiles(heap, folders)
    THEN /\ lastOp' = [op |-> "zipAll", arg |-> 0, res |-> "aborted"]
         /\ UNCHANGED <<heap, folders, shouldStopZipping, runs, timers, dom>>
    ELSE LET l == zipLoop(heap, folders, 0, FALSE, TRUE, <<>>)
         IN  /\ shouldStopZipping' = FALSE
             /\ heap' = l.heap
             /\ runs' = runs \cup l.run
             /\ lastOp' = [op |-> "zipAll", arg |-> 0, res |-> "started"]
             /\ UNCHANGED <<folders, timers, dom>>

\* stop: the click handler of the stop button
stopZipping ==
    /\ shouldStopZipping' = TRUE
    /\ lastOp' = [op |-> "stop", arg |-> 0,
                  res |-> IF runs = {} THEN "idle"
                          ELSE IF \A r \in runs : r.pc = "delay" /\ r.i = 0
                          THEN "firstYield" ELSE "running"]
    /\ UNCHANGED <<heap, folders, runs, timers, dom>>

\* mutant: clear-all keeps the records that are Zipping, as remove does
clearAllFolders_m ==
    /\ shouldStopZipping' = TRUE
    /\ folders' = SelectSeq(folders, LAMBDA id : heap[id].status = ZIPPING)
    /\ runs' = Detach(runs, folders)
    /\ dom' = {id \in dom : heap[id].status = ZIPPING}
    /\ lastOp' = [op |-> "clearAll", arg |-> 0, res |-> "ok"]
    /\ UNCHANGED <<heap, timers>>

\* download-all: the click handler of the download-all button. The bundle
\* is filled before the handler's only await; what follows the await hands
\* the generated blob to the browser as all_folders.zip and touches no
\* state. The entries of the bundle are kept in lastOp.
downloadAllZips ==
    /\ lastOp' = [op |-> "downloadAll",
                  arg |-> mainZipFrom(heap, folders, 1, <<>>),
                  res |-> <<"a","l","l","_","f","o","l","d","e","r","s",".","z","i","p">>]
    /\ UNCHANGED <<heap, folders, shouldStopZipping, runs, timers, dom>>

\* clear-all: the click handler of the clear-all button
clearAllFolders ==
    /\ shouldStopZipping' = TRUE
    /\ folders' = <<>>
    /\ runs' = Detach(runs, folders)
    /\ dom' = {}
    /\ lastOp' = [op |-> "clearAll", arg |-> 0, res |-> "ok"]
    /\ UNCHANGED <<heap, timers>>

----------------------------------------------------------------------------
(* Tasks the program scheduled itself *)

\* delay(ZIP_PROCESSING) has resolved: the run goes on after the await in
\* the for loop of zipFolder
delayResolved(r) ==
    /\ r.pc = "delay"
    /\ LET z == zipFolderFrom(heap, r.cur, r.i + 1, r.zip, shouldStopZipping)
           l == resumeRun(heap, r, ArrayOf(r, folders), z, shouldStopZipping)
       IN  /\ heap' = l.heap
           /\ runs' = (runs \ {r}) \cup l.run
    /\ UNCHANGED <<folders, shouldStopZipping, timers, dom, lastOp>>

\* zip.generateAsync has resolved with the blob: zipFolder ends and the loop
\* of zipAllFolders goes on
generateResolved(r) ==
    /\ r.pc = "generate"
    /\ LET h == completeFolder(heap, r.cur, r.zip)
           l == zipLoop(h, ArrayOf(r, folders), r.pos, shouldStopZipping, r.shared, r.arr)
       IN  /\ heap' = l.heap
           /\ runs' = (runs \ {r}) \cup l.run
    /\ UNCHANGED <<folders, shouldStopZipping, timers, dom, lastOp>>

\* zip.generateAsync has rejected (a file of the folder cannot be read):
\* zipFolder throws at its await, and zipAllFolders, which awaits it without
\* a try, throws too
generateRejected(r) ==
    /\ r.pc = "generate"
    /\ runs' = runs \ {r}
    /\ UNCHANGED <<heap, folders, shouldStopZipping, timers, dom, lastOp>>

\* the oldest setTimeout(REMOVE_FOLDER) callback runs
removalTimeout ==
    /\ timers # <<>>
    /\ LET t == Head(timers)
       IN  /\ dom' = dom \ {t.id}
           /\ IF t.kind = "removeUnwanted" /\ t.last
              THEN /\ folders' = withoutUnwanted(heap, folders)
                   /\ runs' = Detach(runs, folders)
              ELSE UNCHANGED <<folders, runs>>
    /\ timers' = Tail(timers)
    /\ UNCHANGED <<heap, shouldStopZipping, lastOp>>

----------------------------------------------------------------------------

\* the folderMap of each batch, and the names in it that are not registered
BatchGroups == [b \in 1..Len(Batches) |-> groupBatch(Batches[b])]

FreshNames(b) ==
    {BatchGroups[b][g].name : g \in 1..Len(BatchGroups[b])}
        \ {heap[folders[k]].name : k \in 1..Len(folders)}

\* the commands and tasks of the program, within the bounds of the model
Next ==
    \/ \E b \in 1..Len(Batches) :
          /\ Len(heap) + Cardinality(FreshNames(b)) <= MaxIds
          /\ processUploadedFiles(Batches[b])
    \/ \E id \in Ids : removeFolder(id) /\ Len(timers') <= MaxTimers
    \/ removeUnwantedFiles /\ Len(timers') <= MaxTimers
    \/ zipAllFolders /\ Cardinality(runs') <= MaxRuns
    \/ stopZipping
    \/ clearAllFolders
    \/ downloadAllZips
    \/ \E r \in runs : delayResolved(r)
    \/ \E r \in runs : generateResolved(r)
    \/ \E r \in runs : generateRejected(r)
    \/ removalTimeout

Spec == Init /\ [][Next]_vars

----------------------------------------------------------------------------
(* The grouper and the relative path as functions of their inputs: an       *)
(* input is drawn, then the function is applied to it. The input and the    *)
(* result are kept in lastOp; the registry stays as constructed.            *)

\* segments of the drawn paths: two names of one character, one longer
GroupSegments == {<<"P">>, <<"q">>, <<"d","i">>}

GroupPaths ==
    {join(parts) : parts \in UNION {[1..n -> GroupSegments] : n \in 1..MaxSegments}}

FileProjA == File(<<"P","r","o","j","/","a",".","t","x","t">>)
FileProjSubB == File(<<"P","r","o","j","/","s","u","b","/","b",".","t","x","t">>)
FileRootSubDeep ==
    File(<<"R","o","o","t","/","S","u","b","/","d","e","e","p",".","t","x","t">>)
FileABc == File(<<"A","/","B","/","c",".","t","x","t">>)

GroupFiles == {File(path) : path \in GroupPaths}

\* the batches drawn: every batch of up to MaxBatch drawn files, and the
\* folder Proj holding a.txt and sub/b.txt
GroupBatches ==
    UNION {[1..n -> GroupFiles] : n \in 0..MaxBatch} \cup {<<FileProjA, FileProjSubB>>}

\* the record names a relative path is computed for
RecordNames == GroupSegments \cup {<<"S","u","b">>, <<"n","o","n","e">>}

FunctionInputs ==
    {[op |-> "batch", arg |-> fileArray, res |-> {}] : fileArray \in GroupBatches}
    \cup {[op |-> "file", arg |-> <<file, folderName>>, res |-> {}] :
             file \in GroupFiles \cup {FileRootSubDeep, FileABc},
             folderName \in RecordNames}

FunctionInit ==
    /\ heap = <<>>
    /\ folders = <<>>
    /\ shouldStopZipping = FALSE
    /\ runs = {}
    /\ timers = <<>>
    /\ dom = {}
    /\ lastOp \in FunctionInputs

\* the grouping pass of processUploadedFiles on the drawn batch: the common
\* root it computes and the folderMap it fills
groupUploadedFiles ==
    /\ lastOp.op = "batch"
    /\ LET fileArray == lastOp.arg
           pathParts == [k \in 1..Len(fileArray) |->
                            split(fileArray[k].webkitRelativePath)]
       IN  lastOp' = [op |-> "group",
                      arg |-> fileArray,
                      res |-> [commonRoot |-> extractCommonRoot(pathParts),
                               folderMap |-> groupBatch(fileArray)]]
    /\ UNCHANGED <<heap, folders, shouldStopZipping, runs, timers, dom>>

\* calculateRelativePath on the drawn file and record name
relativePathOfFile ==
    /\ lastOp.op = "file"
    /\ lastOp' = [op |-> "relativePath",
                  arg |-> lastOp.arg,
                  res |-> calculateRelativePath(lastOp.arg[1], lastOp.arg[2])]
    /\ UNCHANGED <<heap, folders, shouldStopZipping, runs, timers, dom>>

FunctionNext ==
    \/ groupUploadedFiles
    \/ relativePathOfFile

FunctionSpec == FunctionInit /\ [][FunctionNext]_vars

----------------------------------------------------------------------------
(* The registry under selections of stray files: the adding and removing    *)
(* commands and the removal callbacks                                       *)

\* the selections: a root holding one stray file; a root holding two; a
\* root holding the folder B
StrayBatches == << <<FileM1>>, <<FileN1, FileM1>>, <<FileB1>> >>

CleanupNext ==
    \/ \E b \in 1..Len(StrayBatches) :
          processUploadedFiles(StrayBatches[b]) /\ Len(heap') <= MaxIds
    \/ \E id \in Ids : removeFolder(id) /\ Len(timers') <= MaxTimers
    \/ removeUnwantedFiles /\ Len(timers') <= MaxTimers
    \/ clearAllFolders
    \/ removalTimeout

CleanupSpec == Init /\ [][CleanupNext]_vars

----------------------------------------------------------------------------
(* The bulk run under zip-all and stop alone, on one selection of four      *)
(* folders, with no finalize step failing                                   *)

FileC1 == File(<<"R","/","C","/","i",".","t">>)
FileD1 == File(<<"R","/","D","/","j",".","t">>)

\* the selection: a root holding the folders A, B, C and D, of one file each
FolderBatch == <<FileA1, FileB1, FileC1, FileD1>>

ReentryNext ==
    \/ processUploadedFiles(FolderBatch) /\ Len(heap') <= MaxFolders
    \/ zipAllFolders /\ Cardinality(runs') <= MaxCalls
    \/ stopZipping
    \/ \E r \in runs : delayResolved(r)
    \/ \E r \in runs : generateResolved(r)

ReentrySpec == Init /\ [][ReentryNext]_vars

----------------------------------------------------------------------------
(* The registry as the claims read it *)

Registered == {folders[k] : k \in 1..Len(folders)}

HasInvalidRecord == \E id \in Registered : heap[id].isFile

----------------------------------------------------------------------------
(* C1: at most one registered record has status Zipping, in every reachable *)
(* state.  Refuted: zipAllFolders does not check whether a run is in        *)
(* flight, and a second call starts the next pending folder.                *)
C1_AtMostOneZipping ==
    Cardinality({id \in Registered : heap[id].status = ZIPPING}) <= 1

(* C2: when generateAsync rejects during the zip attempt of a record, the   *)
(* record is left Pending with progress 0.  Refuted: zipFolder has no       *)
(* handler, the record stays Zipping.                                       *)
C2_FinalizeFailureResets ==
    [][\A r \in runs :
          generateRejected(r) =>
              /\ heap'[r.cur].status = PENDING
              /\ heap'[r.cur].progress = 0]_vars

(* C3: a bulk zip is started and stop is requested before the first         *)
(* per-file yield of the record in flight has returned.  Once the runs have *)
(* ended, with no other command since, no record has status Zipping and     *)
(* every record that is not Complete is Pending with progress 0.  Refuted   *)
(* by a record that an earlier rejected generateAsync left Zipping (C2).    *)
C3_StopAtFirstYieldResets ==
    (lastOp.op = "stop" /\ lastOp.res = "firstYield" /\ runs = {}) =>
        \A id \in Ids :
            /\ heap[id].status # ZIPPING
            /\ heap[id].status # COMPLETE =>
                   heap[id].status = PENDING /\ heap[id].progress = 0

(* C4: while the cancellation flag stays set (no zip-all clears it in the   *)
(* step), no record goes from Pending to Zipping.                           *)
C4_NoStartWhileStopped ==
    [][(shouldStopZipping /\ shouldStopZipping') =>
          \A id \in Ids :
              ~(heap[id].status = PENDING /\ heap'[id].status = ZIPPING)]_vars

\* a stop was requested during a run, the run has ended, and a registered
\* pending folder that the run would have zipped was not started
C4_Witness ==
    /\ lastOp.op = "stop" /\ lastOp.res # "idle"
    /\ shouldStopZipping
    /\ runs = {}
    /\ \E id \in Registered :
          heap[id].status = PENDING /\ ~heap[id].isFile /\ heap[id].progress = 0

(* C5: remove(id) on a record whose status is Zipping changes neither the   *)
(* registry, nor a field of any record, nor the cancellation flag.          *)
C5_RemoveZippingRefused ==
    [][\A id \in Ids :
          (heap[id].status = ZIPPING /\ removeFolder(id)) =>
              /\ folders' = folders
              /\ heap' = heap
              /\ shouldStopZipping' = shouldStopZipping]_vars

\* remove was called on a registered record that is Zipping, and it is
\* still registered
C5_Witness ==
    /\ lastOp.op = "remove" /\ lastOp.res = "refused"
    /\ lastOp.arg \in Registered
    /\ heap[lastOp.arg].status = ZIPPING

(* C6: zip-all invoked while a registered record is invalid changes the     *)
(* status of no record and suspends no run.                                 *)
C6_ZipAllAbortsOnInvalid ==
    [][(HasInvalidRecord /\ zipAllFolders) =>
          /\ \A id \in Ids : heap'[id].status = heap[id].status
          /\ runs' = runs]_vars

\* zip-all was called and aborted, with an invalid record registered beside
\* a folder it would otherwise have zipped
C6_Witness ==
    /\ lastOp.op = "zipAll" /\ lastOp.res = "aborted"
    /\ HasInvalidRecord
    /\ \E id \in Registered : heap[id].status = PENDING /\ ~heap[id].isFile

(* C7: a record has an archive (zipBlob is not null) if and only if its     *)
(* status is Complete.                                                      *)
C7_ArchiveIffComplete ==
    \A id \in Ids : (heap[id].zipBlob # NoBlob) <=> (heap[id].status = COMPLETE)

\* one record is Complete with its archive while another was reset
\* without one
C7_Witness ==
    /\ \E id \in Ids : heap[id].status = COMPLETE /\ heap[id].zipBlob # NoBlob
    /\ \E id \in Ids : heap[id].status = PENDING /\ heap[id].zipBlob = NoBlob
    /\ lastOp.op = "stop" /\ lastOp.res = "running"

(* C8: the names of the registered records are pairwise distinct.           *)
C8_NamesUnique ==
    \A j, k \in 1..Len(folders) :
        j # k => heap[folders[j]].name # heap[folders[k]].name

\* a batch that held an already registered name was added to a registry of
\* three records
C8_Witness ==
    /\ lastOp.op = "add" /\ lastOp.res = "dropped"
    /\ Len(folders) = 3

(* C9: addFolder with a name that is already registered is a no-op: in an   *)
(* add-batch, the registry keeps its records in order and grows only by the *)
(* groups with a new name, and every existing record keeps all its fields.  *)
C9_DuplicateNameIsNoOp ==
    [][\A b \in 1..Len(Batches) :
          (/\ lastOp'.op = "add" /\ runs' = runs /\ timers' = timers
           /\ processUploadedFiles(Batches[b])) =>
              LET folderMap == groupBatch(Batches[b])
                  fresh == {g \in 1..Len(folderMap) :
                               \A id \in Registered : heap[id].name # folderMap[g].name}
              IN  /\ Len(folders') = Len(folders) + Cardinality(fresh)
                  /\ SubSeq(folders', 1, Len(folders)) = folders
                  /\ \A id \in Ids : heap'[id] = heap[id]
                  /\ \A id \in (1..Len(heap')) \ Ids :
                        \E g \in fresh : /\ heap'[id].name = folderMap[g].name
                                         /\ heap'[id].files = folderMap[g].files]_vars

\* a batch was added whose folder A was registered already, with other files
C9_Witness ==
    /\ lastOp.op = "add" /\ lastOp.res = "dropped"
    /\ \E id \in Registered :
          /\ heap[id].name = <<"A">>
          /\ heap[id].files = <<FileA1, FileA2, FileA3>>

(* C10: a record goes to Zipping only from Pending and only when it is      *)
(* valid; an invalid record is Pending with progress 0 and no archive in    *)
(* every state.                                                             *)
C10_OnlyValidPendingZipped ==
    [][/\ \A id \in Ids :
             (heap[id].status # ZIPPING /\ heap'[id].status = ZIPPING) =>
                 (heap[id].status = PENDING /\ ~heap[id].isFile)
       /\ \A id \in 1..Len(heap') :
             heap'[id].isFile =>
                 /\ heap'[id].status = PENDING
                 /\ heap'[id].progress = 0
                 /\ heap'[id].zipBlob = NoBlob]_vars

\* an invalid record was pushed on the array a run was iterating; the run
\* went on to the end of the array, passing the invalid record as it was to
\* complete the folder behind it
C10_Witness ==
    /\ lastOp.op = "add" /\ lastOp.arg = 1
    /\ ~shouldStopZipping
    /\ runs = {}
    /\ \E j, k, l \in 1..Len(folders) :
          /\ j < k /\ k < l
          /\ heap[folders[j]].status = COMPLETE
          /\ heap[folders[k]].isFile
          /\ heap[folders[k]].status = PENDING
          /\ heap[folders[l]].status = COMPLETE

(* C11: from one state to the next a record that is and stays Zipping does  *)
(* not lose progress, and a run waiting after the k-th of the n files of    *)
(* its record has left the progress at the integer nearest to 100 k / n     *)
(* (halves upwards).                                                        *)
C11_ProgressMonotoneRounded ==
    [][/\ \A id \in Ids :
             (heap[id].status = ZIPPING /\ heap'[id].status = ZIPPING) =>
                 heap'[id].progress >= heap[id].progress
       /\ \A r \in runs' :
             r.pc = "delay" =>
                 LET k == r.i + 1
                     n == Len(heap'[r.cur].files)
                     p == heap'[r.cur].progress
                 IN  /\ 2 * p * n - n <= 200 * k
                     /\ 200 * k < 2 * p * n + n]_vars

\* a run waits after the second of the three files of its record, at 67
C11_Witness ==
    \E r \in runs :
        /\ r.pc = "delay" /\ r.i = 1
        /\ Len(heap[r.cur].files) = 3
        /\ heap[r.cur].status = ZIPPING
        /\ heap[r.cur].progress = 67

(* C12: once clear-all has been handled, and until the next command, the    *)
(* registry is empty and the cancellation flag is set, whatever the status  *)
(* of the records it held.                                                  *)
C12_ClearAllEmptiesAndStops ==
    lastOp.op = "clearAll" => (folders = <<>> /\ shouldStopZipping)

\* clear-all was handled while a run was zipping a record: the record is
\* still Zipping (no record starts once the flag is set) and is no longer
\* registered
C12_Witness ==
    /\ lastOp.op = "clearAll"
    /\ \E r \in runs : heap[r.cur].status = ZIPPING /\ r.cur \notin Registered

(* C13: the step of remove-all-invalid takes every invalid record out of    *)
(* the registry at once, and leaves every valid record registered, with     *)
(* its fields as they were and in the order they had.                       *)
C13_RemoveAllInvalidAtOnce ==
    [][removeUnwantedFiles =>
          /\ Registered' = {id \in Registered : ~heap[id].isFile}
          /\ Len(folders') = Cardinality(Registered')
          /\ \A j, k \in 1..Len(folders') :
                j < k => indexOf(folders, folders'[j]) < indexOf(folders, folders'[k])
          /\ heap' = heap]_vars

\* one remove-all-invalid took two invalid records out (its two removal
\* callbacks are pending) and left a valid record registered
C13_Witness ==
    /\ lastOp.op = "removeUnwanted" /\ lastOp.res = "removed"
    /\ Len(timers) = 2
    /\ timers[1].kind = "removeUnwanted" /\ ~timers[1].last
    /\ timers[2].kind = "removeUnwanted" /\ timers[2].last
    /\ heap[timers[1].id].isFile /\ heap[timers[2].id].isFile
    /\ timers[1].id \notin Registered /\ timers[2].id \notin Registered
    /\ \E id \in Registered : ~heap[id].isFile

(* C14: the grouper puts every entry of a batch in the group named by the   *)
(* entry's second path segment when the batch has a common root, some       *)
(* entry of the batch has more than one segment and this entry has more     *)
(* than one segment, and in the group named by its first segment in every   *)
(* other case.                                                              *)
C14_GroupNameRule ==
    lastOp.op = "group" =>
        LET fileArray == lastOp.arg
            parts == [k \in 1..Len(fileArray) |-> split(fileArray[k].webkitRelativePath)]
            hasCommonRoot == Cardinality({parts[k][1] : k \in 1..Len(parts)}) = 1
            someNested == \E j \in 1..Len(parts) : Len(parts[j]) > 1
            folderMap == lastOp.res.folderMap
        IN  \A k \in 1..Len(fileArray) :
                LET groupName == IF hasCommonRoot /\ someNested /\ Len(parts[k]) > 1
                                 THEN parts[k][2]
                                 ELSE parts[k][1]
                IN  \E g \in 1..Len(folderMap) :
                        /\ folderMap[g].name = groupName
                        /\ \E f \in 1..Len(folderMap[g].files) :
                              folderMap[g].files[f] = fileArray[k]

(* C15 as stated: the batch Proj/a.txt, Proj/sub/b.txt has the common root  *)
(* Proj and gives exactly two groups, Proj holding a.txt and sub holding    *)
(* b.txt.                                                                   *)
C15_ProjExampleAsStated ==
    (lastOp.op = "group" /\ lastOp.arg = <<FileProjA, FileProjSubB>>) =>
        /\ lastOp.res.commonRoot = {<<"P","r","o","j">>}
        /\ Len(lastOp.res.folderMap) = 2
        /\ \E g \in 1..2 :
              /\ lastOp.res.folderMap[g].name = <<"P","r","o","j">>
              /\ lastOp.res.folderMap[g].files = <<FileProjA>>
        /\ \E g \in 1..2 :
              /\ lastOp.res.folderMap[g].name = <<"s","u","b">>
              /\ lastOp.res.folderMap[g].files = <<FileProjSubB>>

(* C15, amended: the batch Proj/a.txt, Proj/sub/b.txt has the common root   *)
(* Proj and gives exactly two groups, in this order: a.txt holding a.txt    *)
(* and sub holding b.txt.                                                   *)
C15_ProjExample ==
    (lastOp.op = "group" /\ lastOp.arg = <<FileProjA, FileProjSubB>>) =>
        /\ lastOp.res.commonRoot = {<<"P","r","o","j">>}
        /\ lastOp.res.folderMap =
              << [name |-> <<"a",".","t","x","t">>, files |-> <<FileProjA>>],
                 [name |-> <<"s","u","b">>, files |-> <<FileProjSubB>>] >>

\* the batch of the example was grouped
C15_Witness ==
    /\ lastOp.op = "group"
    /\ lastOp.arg = <<FileProjA, FileProjSubB>>
    /\ Len(lastOp.res.folderMap) = 2

(* C16 as stated: for a batch whose paths all have one segment the common   *)
(* root is null and every entry is in the group named by its segment.       *)
C16_OneSegmentAsStated ==
    (/\ lastOp.op = "group"
     /\ \A k \in 1..Len(lastOp.arg) : Len(split(lastOp.arg[k].webkitRelativePath)) = 1) =>
        /\ lastOp.res.commonRoot = {}
        /\ \A k \in 1..Len(lastOp.arg) :
              \E g \in 1..Len(lastOp.res.folderMap) :
                  /\ lastOp.res.folderMap[g].name = lastOp.arg[k].webkitRelativePath
                  /\ \E f \in 1..Len(lastOp.res.folderMap[g].files) :
                        lastOp.res.folderMap[g].files[f] = lastOp.arg[k]

(* C16, amended: for a batch whose paths all have one segment every entry   *)
(* is in the group named by its segment; the common root is that segment    *)
(* when all the entries have the same one, and null when the batch is       *)
(* empty or holds two different segments.                                   *)
C16_OneSegment ==
    (/\ lastOp.op = "group"
     /\ \A k \in 1..Len(lastOp.arg) : Len(split(lastOp.arg[k].webkitRelativePath)) = 1) =>
        LET segments == {lastOp.arg[k].webkitRelativePath : k \in 1..Len(lastOp.arg)}
        IN  /\ lastOp.res.commonRoot = (IF Cardinality(segments) = 1 THEN segments ELSE {})
            /\ \A k \in 1..Len(lastOp.arg) :
                  \E g \in 1..Len(lastOp.res.folderMap) :
                      /\ lastOp.res.folderMap[g].name = lastOp.arg[k].webkitRelativePath
                      /\ \E f \in 1..Len(lastOp.res.folderMap[g].files) :
                            lastOp.res.folderMap[g].files[f] = lastOp.arg[k]

\* a batch of two entries of one and the same segment was grouped: its
\* common root is the segment
C16_Witness ==
    /\ lastOp.op = "group"
    /\ Len(lastOp.arg) = 2
    /\ \A k \in 1..2 : Len(split(lastOp.arg[k].webkitRelativePath)) = 1
    /\ lastOp.res.commonRoot = {lastOp.arg[1].webkitRelativePath}
    /\ Len(lastOp.res.folderMap) = 1

(* C17: the relative path of a file in the archive of a record is made of   *)
(* the segments after the first segment equal to the record name, joined    *)
(* by "/", or is the file name when none follows; when no segment equals    *)
(* the record name it is made of the segments after the first one, or is    *)
(* the file name when the path has one segment. Root/Sub/deep.txt in Sub    *)
(* gives deep.txt, and A/B/c.txt in a record named by none of its segments  *)
(* gives B/c.txt.                                                           *)
C17_RelativePath ==
    lastOp.op = "relativePath" =>
        LET file == lastOp.arg[1]
            folderName == lastOp.arg[2]
            parts == split(file.webkitRelativePath)
            matches == {k \in 1..Len(parts) : parts[k] = folderName}
            first == CHOOSE k \in matches : \A j \in matches : k <= j
            after == IF matches # {} THEN SubSeq(parts, first + 1, Len(parts))
                     ELSE SubSeq(parts, 2, Len(parts))
        IN  /\ lastOp.res = (IF after = <<>> THEN file.name ELSE join(after))
            /\ (file = FileRootSubDeep /\ folderName = <<"S","u","b">>) =>
                  lastOp.res = <<"d","e","e","p",".","t","x","t">>
            /\ (file = FileABc /\ matches = {}) =>
                  lastOp.res = <<"B","/","c",".","t","x","t">>

\* the relative path of Root/Sub/deep.txt in the record Sub was computed
C17_Witness ==
    /\ lastOp.op = "relativePath"
    /\ lastOp.arg = <<FileRootSubDeep, <<"S","u","b">> >>
    /\ lastOp.res = <<"d","e","e","p",".","t","x","t">>

(* C18: the bundle of download-all holds one entry "<name>.zip" for each    *)
(* registered record that has an archive at the time of the command, with   *)
(* that archive as its content, and nothing else; records without an        *)
(* archive are passed over, and with no archive at all the bundle is empty. *)
C18_BundleEntries ==
    [][downloadAllZips =>
          LET bundle == lastOp'.arg
              archived == {id \in Registered : heap[id].zipBlob # NoBlob}
          IN  /\ Len(bundle) = Cardinality(archived)
              /\ \A id \in archived :
                    \E k \in 1..Len(bundle) :
                        /\ bundle[k].path = heap[id].name \o <<".","z","i","p">>
                        /\ heap[id].zipBlob = {bundle[k].data}
              /\ (archived = {}) => (bundle = <<>>)]_vars

\* download-all was handled with A archived and two more records registered
\* that have no archive: the bundle holds A.zip alone
C18_Witness ==
    /\ lastOp.op = "downloadAll"
    /\ runs = {}
    /\ Len(lastOp.arg) = 1
    /\ lastOp.arg[1].path = <<"A",".","z","i","p">>
    /\ Cardinality({id \in Registered : heap[id].zipBlob = NoBlob}) = 2

(* C19: the status of a record changes only from Pending to Zipping, from   *)
(* Zipping to Complete, from Zipping to Pending or from Complete to         *)
(* Pending; in particular never from Pending to Complete in one step.       *)
C19_StatusTransitions ==
    [][\A id \in Ids :
          heap'[id].status # heap[id].status =>
              <<heap[id].status, heap'[id].status>> \in
                  {<<PENDING, ZIPPING>>, <<ZIPPING, COMPLETE>>,
                   <<ZIPPING, PENDING>>, <<COMPLETE, PENDING>>}]_vars

\* a record went Pending, Zipping, Complete, and the next one was stopped
\* at its first yield and went from Zipping back to Pending
C19_Witness ==
    /\ lastOp.op = "stop" /\ lastOp.res = "firstYield"
    /\ runs = {}
    /\ \E id \in Registered : heap[id].status = COMPLETE
    /\ \E id \in Registered : heap[id].status = PENDING /\ ~heap[id].isFile
    /\ \A id \in Ids : heap[id].status # ZIPPING

(* C20: no record goes from Zipping to Complete in a step taken while the   *)
(* cancellation flag is set.                                                *)
C20_NoCompleteWhileStopped ==
    [][\A id \in Ids :
          (heap[id].status = ZIPPING /\ heap'[id].status = COMPLETE) =>
              ~shouldStopZipping]_vars

(* C21: after a zip-all that found no invalid record, and until the next    *)
(* command, the records that were Pending and valid at the zip-all enter    *)
(* Zipping in registry order: no task takes a record to Zipping while a     *)
(* valid record before it in the registry is left Pending.                  *)
C21_ZippedInRegistryOrder ==
    [][(/\ lastOp.op = "zipAll" /\ lastOp.res = "started"
        /\ lastOp' = lastOp
        /\ Cardinality(runs') <= Cardinality(runs)) =>
          \A j, k \in 1..Len(folders) :
              (/\ j < k
               /\ heap[folders[k]].status = PENDING
               /\ heap'[folders[k]].status = ZIPPING) =>
                  ~(heap'[folders[j]].status = PENDING /\ ~heap'[folders[j]].isFile)]_vars

(* C22: from the remove(id) that took a record out of the registry to the   *)
(* next command, the record does not go to Zipping.                         *)
C22_RemovedNeverZipped ==
    [][(/\ lastOp.op = "remove" /\ lastOp.res = "removed"
        /\ lastOp' = lastOp
        /\ lastOp.arg \notin Registered) =>
          ~(/\ heap[lastOp.arg].status # ZIPPING
            /\ heap'[lastOp.arg].status = ZIPPING)]_vars

(* C23: the delayed removal callbacks leave the registry as it is: a        *)
(* record registered when a callback fires, which an add-batch issued       *)
(* after the remove-all-invalid has created, stays registered.              *)
C23_CallbackLeavesRegistry ==
    [][removalTimeout => folders' = folders]_vars

(* C24: a record that is Complete keeps its status, its progress of 100     *)
(* and its archive in every step, registered or not.                        *)
C24_CompleteAbsorbing ==
    [][\A id \in Ids :
          heap[id].status = COMPLETE =>
              /\ heap[id].progress = 100
              /\ heap[id].zipBlob # NoBlob
              /\ heap'[id] = heap[id]]_vars

\* stop was handled with no run in flight and a record Complete: no task
\* has touched a record since, and the record is as stop found it
C24_Witness ==
    /\ lastOp.op = "stop" /\ lastOp.res = "idle"
    /\ \E id \in Registered :
          /\ heap[id].status = COMPLETE
          /\ heap[id].progress = 100
          /\ heap[id].zipBlob # NoBlob

====
